---------------------------- MODULE Spec2Model ----------------------------
(***************************************************************************)
(* Model of build_edit (src/anime_edit_automator.py): the beat-driven      *)
(* segmentation loop, the per-segment effect schedule, the placement of    *)
(* clips on the output timeline and the duration of the stitched edit.     *)
(*                                                                         *)
(* Time is exact rational arithmetic on integers.  One centisecond is      *)
(* UnitsPerCs model units, chosen so that the duration velocity_ramp       *)
(* gives a clip, d/2/0.75 + d/2/1.15 = d * 76/69, is an integer whenever   *)
(* d is a whole number of centiseconds.                                    *)
(*                                                                         *)
(* A clip is a record with the fields moviepy keeps (start, end) plus the  *)
(* source interval it was cut from and the effects applied to it.  The     *)
(* list `timeline` holds segments and flash overlays alike, as in the      *)
(* code.  The parameters of the effects (zoom factor, ramp pattern, shake  *)
(* amplitude) do not influence placement and are not modelled.             *)
(***************************************************************************)
EXTENDS Integers, Sequences, FiniteSets, TLC

\* ------------------------------------------------------------------------
\* Bounds of the model
\* ------------------------------------------------------------------------
MaxBeats == 3
MaxBeatTick == 8
MaxLenSteps == 4
MaxEveryN == 2

\* ------------------------------------------------------------------------
\* Program constants (centiseconds)
\* ------------------------------------------------------------------------
RampNum == 76
UnitsPerCs == 69
MinSegCs == 12
RampMinCs == 60
SkipQuantumCs == 35
FlashCs == 6
RampEvery == 5
RampPhase == 2
DefaultZoomEveryN == 3
DefaultFlashEveryN == 4

Cs(x) == x * UnitsPerCs

Min(a, b) == IF a <= b THEN a ELSE b
Max(a, b) == IF a >= b THEN a ELSE b
CeilDiv(a, b) == (a + b - 1) \div b
Last(s) == s[Len(s)]

VARIABLES
  video_duration, music_duration, beats,
  clip_min, clip_max, zoom_every_n, flash_every_n, shake,
  total_dur, timeline, t, seg_idx, beat_idx,
  comp_duration, pc, draws, iters

params == <<video_duration, music_duration, beats, clip_min, clip_max,
            zoom_every_n, flash_every_n, shake, total_dur>>
vars == <<video_duration, music_duration, beats, clip_min, clip_max,
          zoom_every_n, flash_every_n, shake, total_dur,
          timeline, t, seg_idx, beat_idx, comp_duration, pc, draws, iters>>

\* ------------------------------------------------------------------------
\* Inputs
\* ------------------------------------------------------------------------
\* detect_beats returns a sorted, de-duplicated list of beat times whose
\* neighbours are at least 0.12 s apart.
BeatTimes == {Cs(15 * k) : k \in 0..MaxBeatTick}

IsBeatList(s) ==
  \A i \in 1..Len(s) : \A j \in 1..Len(s) :
     i < j => s[j] - s[i] >= Cs(MinSegCs)

BeatLists ==
  {s \in UNION {[1..n -> BeatTimes] : n \in 0..MaxBeats} : IsBeatList(s)}

VideoDurations == {Cs(40), Cs(125)}
MusicDurations == {Cs(90), Cs(125)}
ClipRanges == {<<Cs(15), Cs(75)>>, <<Cs(25), Cs(125)>>}

\* zoom_every_n and flash_every_n: small periods and the defaults.
ZoomPeriods == 1..MaxEveryN \cup {DefaultZoomEveryN}
FlashPeriods == 1..MaxEveryN \cup {DefaultFlashEveryN}

\* The values random.uniform(clip_min, clip_max) is let to return.
Lengths(lo, hi) ==
  {lo, hi} \cup {l \in {Cs(15 * k) : k \in 1..MaxLenSteps} : lo <= l /\ l <= hi}

\* ------------------------------------------------------------------------
\* Helpers of the loop body
\* ------------------------------------------------------------------------
\* velocity_ramp: two halves played at 0.75x and 1.15x; the composite lasts
\* mid/0.75 + mid/1.15 whichever half comes first.
RampDuration(d) == (d * RampNum) \div UnitsPerCs

HasRamp(k, d) == (k % RampEvery = RampPhase) /\ d >= Cs(RampMinCs)
HasPunch(k, n) == k % n = 0
HasShakeEven(k, sh) == sh /\ (k % 2 = 0)
HasShake(k, sh) == sh /\ (k % 2 = 1)
HasFlashUnshifted(k, n) == k % n = 0
HasFlash(k, n) == (k + 1) % n = 0

\* timeline[-1].end, the start given to the next segment
NextStart(tl) == IF tl = <<>> THEN 0 ELSE Last(tl).end

BeatSkipPlusOne(length) == 1 + CeilDiv(length, Cs(SkipQuantumCs))
BeatSkip(length) == Max(1, CeilDiv(length, Cs(SkipQuantumCs)))

TooShortLenNonPositive(start, end) == end - start <= 0
TooShortLen(start, end) == end - start < Cs(MinSegCs)

Segment(k, start, end, at, d) ==
  [kind |-> "seg", idx |-> k, src_start |-> start, src_end |-> end,
   start |-> at, end |-> at + d,
   ramp |-> HasRamp(k, end - start),
   punch |-> HasPunch(k, zoom_every_n),
   shake |-> HasShake(k, shake),
   grade |-> TRUE]

\* flash_white(...).set_start(timeline[-1].start)
Flash(k, at) ==
  [kind |-> "flash", idx |-> k, src_start |-> 0, src_end |-> 0,
   start |-> at, end |-> at + Cs(FlashCs),
   ramp |-> FALSE, punch |-> FALSE, shake |-> FALSE, grade |-> FALSE]

IsStale(start, cursor) == start < cursor

\* set_duration(min(t, total_dur)) of the stitched composite
CompDurationUnclipped(cursor, total) == cursor
CompDuration(cursor, total) == Min(cursor, total)

LoopCond == t < total_dur - clip_min /\ beat_idx < Len(beats)

\* ------------------------------------------------------------------------
\* Initial states
\* ------------------------------------------------------------------------
InitLoop ==
  /\ total_dur = Min(video_duration, music_duration)
  /\ timeline = <<>>
  /\ t = 0
  /\ seg_idx = 0
  /\ beat_idx = 0
  /\ comp_duration = 0
  /\ pc = "loop"
  /\ draws = <<>>
  /\ iters = 0

Init ==
  /\ video_duration \in VideoDurations
  /\ music_duration \in MusicDurations
  /\ beats \in BeatLists
  /\ \E r \in ClipRanges : clip_min = r[1] /\ clip_max = r[2]
  /\ zoom_every_n \in ZoomPeriods
  /\ flash_every_n \in FlashPeriods
  /\ shake \in BOOLEAN
  /\ InitLoop

\* The runs main() starts: it passes neither period, so both keep their
\* defaults; the shake flag plays no part in the loop's control flow.
CliInit ==
  /\ video_duration \in VideoDurations
  /\ music_duration = Cs(90)
  /\ beats \in BeatLists
  /\ \E r \in ClipRanges : clip_min = r[1] /\ clip_max = r[2]
  /\ zoom_every_n = DefaultZoomEveryN
  /\ flash_every_n \in FlashPeriods
  /\ shake = TRUE
  /\ InitLoop

\* The run of the specification's scenario: six beats over two seconds,
\* segment lengths drawn from [0.25, 0.5].
ScenarioBeats == <<Cs(0), Cs(20), Cs(50), Cs(90), Cs(140), Cs(200)>>

ScenarioInit ==
  /\ video_duration \in {Cs(200), Cs(300)}
  /\ music_duration \in {Cs(200), Cs(300)}
  /\ Min(video_duration, music_duration) = Cs(200)
  /\ beats = ScenarioBeats
  /\ clip_min = Cs(25)
  /\ clip_max = Cs(50)
  /\ zoom_every_n \in ZoomPeriods
  /\ flash_every_n \in FlashPeriods
  /\ shake \in BOOLEAN
  /\ InitLoop

\* ------------------------------------------------------------------------
\* One action per way through the loop body, and the stitch after it
\* ------------------------------------------------------------------------
StaleNoAdvance ==
  /\ pc = "loop"
  /\ LoopCond
  /\ IsStale(beats[beat_idx + 1], t)
  /\ UNCHANGED vars

Stale ==
  /\ pc = "loop"
  /\ LoopCond
  /\ IsStale(beats[beat_idx + 1], t)
  /\ beat_idx' = beat_idx + 1
  /\ iters' = iters + 1
  /\ UNCHANGED <<params, timeline, t, seg_idx, comp_duration, pc, draws>>

TooShortConsumesIndex ==
  /\ pc = "loop"
  /\ LoopCond
  /\ LET start == beats[beat_idx + 1] IN
     /\ ~IsStale(start, t)
     /\ \E length \in Lengths(clip_min, clip_max) :
          LET end == Min(start + length, total_dur) IN
          /\ TooShortLen(start, end)
          /\ draws' = Append(draws, length)
  /\ beat_idx' = beat_idx + 1
  /\ seg_idx' = seg_idx + 1
  /\ iters' = iters + 1
  /\ UNCHANGED <<params, timeline, t, comp_duration, pc>>

TooShort ==
  /\ pc = "loop"
  /\ LoopCond
  /\ LET start == beats[beat_idx + 1] IN
     /\ ~IsStale(start, t)
     /\ \E length \in Lengths(clip_min, clip_max) :
          LET end == Min(start + length, total_dur) IN
          /\ TooShortLen(start, end)
          /\ draws' = Append(draws, length)
  /\ beat_idx' = beat_idx + 1
  /\ iters' = iters + 1
  /\ UNCHANGED <<params, timeline, t, seg_idx, comp_duration, pc>>

Accept ==
  /\ pc = "loop"
  /\ LoopCond
  /\ LET start == beats[beat_idx + 1] IN
     /\ ~IsStale(start, t)
     /\ \E length \in Lengths(clip_min, clip_max) :
          LET end == Min(start + length, total_dur)
              d   == IF HasRamp(seg_idx, end - start)
                       THEN RampDuration(end - start)
                       ELSE end - start
              sub == Segment(seg_idx, start, end, NextStart(timeline), d)
          IN
          /\ ~TooShortLen(start, end)
          /\ timeline' =
               IF HasFlash(seg_idx, flash_every_n)
                 THEN Append(Append(timeline, sub), Flash(seg_idx, sub.start))
                 ELSE Append(timeline, sub)
          /\ t' = sub.end
          /\ seg_idx' = seg_idx + 1
          /\ beat_idx' = beat_idx + BeatSkip(length)
          /\ draws' = Append(draws, length)
  /\ iters' = iters + 1
  /\ UNCHANGED <<params, comp_duration, pc>>

Stitch ==
  /\ pc = "loop"
  /\ ~LoopCond
  /\ comp_duration' = CompDuration(t, total_dur)
  /\ pc' = "done"
  /\ UNCHANGED <<params, timeline, t, seg_idx, beat_idx, draws, iters>>

Next == Stale \/ TooShort \/ Accept \/ Stitch

Spec == Init /\ [][Next]_vars

\* The loop is sequential code: a step that can be taken is taken.
LiveSpec == CliInit /\ [][Next]_vars /\ WF_vars(Next)

ScenarioSpec == ScenarioInit /\ [][Next]_vars

\* ------------------------------------------------------------------------
\* Views of the timeline
\* ------------------------------------------------------------------------
IsSeg(c) == c.kind = "seg"
IsFlash(c) == c.kind = "flash"
Segs == SelectSeq(timeline, IsSeg)
Flashes == SelectSeq(timeline, IsFlash)
\* number of segments placed before position i of the timeline
SegsBefore(i) == Cardinality({j \in 1..(i - 1) : IsSeg(timeline[j])})

\* ------------------------------------------------------------------------
\* Steps of the loop, told apart by the candidate they evaluate
\* ------------------------------------------------------------------------
Candidate == beats[beat_idx + 1]
Drew == Len(draws') = Len(draws) + 1
ClippedLen(length) == Min(Candidate + length, total_dur) - Candidate
Iteration == pc = "loop" /\ LoopCond
RejectedStale == Iteration /\ Candidate < t
RejectedShort ==
  /\ Iteration
  /\ Candidate >= t
  /\ Drew
  /\ ClippedLen(Last(draws')) < Cs(MinSegCs)
AcceptedStep ==
  /\ Iteration
  /\ Candidate >= t
  /\ Drew
  /\ ClippedLen(Last(draws')) >= Cs(MinSegCs)

\* ------------------------------------------------------------------------
\* Claims
\* ------------------------------------------------------------------------

\* C1 (as claimed): the first accepted segment starts at 0 on the timeline
\* and every later segment starts where the segment before it ends.
Contiguity ==
  /\ (Len(Segs) > 0 => Segs[1].start = 0)
  /\ \A i \in 1..(Len(Segs) - 1) : Segs[i + 1].start = Segs[i].end

\* C2 (as claimed): the time cursor equals the source end of the last
\* accepted interval and accepted source intervals never overlap: each one
\* starts at or after the source end of every interval accepted before it.
NoSourceOverlap ==
  /\ (Len(Segs) > 0 => t = Last(Segs).src_end)
  /\ \A i \in 1..Len(Segs) : \A j \in 1..Len(Segs) :
       i < j => Segs[j].src_start >= Segs[i].src_end

AllDraws(l) == \A i \in 1..Len(draws) : draws[i] = l
SrcIntervals == [i \in 1..Len(Segs) |-> <<Segs[i].src_start, Segs[i].src_end>>]
Indices == [i \in 1..Len(Segs) |-> Segs[i].idx]
NoRampAtIndex(k) == \A i \in 1..Len(Segs) : Segs[i].idx = k => ~Segs[i].ramp

\* C3 (as claimed): in the scenario with every draw equal to 0.3 s the
\* finished plan has exactly the three segments [0,0.3), [0.5,0.8),
\* [1.4,1.7) with indices 0, 1, 2, and index 2 has no velocity ramp.
ScenarioThreeSegments ==
  (pc = "done" /\ AllDraws(Cs(30))) =>
     /\ SrcIntervals = << <<Cs(0), Cs(30)>>, <<Cs(50), Cs(80)>>,
                          <<Cs(140), Cs(170)>> >>
     /\ Indices = <<0, 1, 2>>
     /\ NoRampAtIndex(2)

\* C3 (amended): in the scenario with every draw equal to 0.3 s the
\* finished plan has exactly the four segments [0,0.3), [0.5,0.8),
\* [0.9,1.2), [1.4,1.7) with indices 0, 1, 2, 3, and index 2 has no
\* velocity ramp.
ScenarioFourSegments ==
  (pc = "done" /\ AllDraws(Cs(30))) =>
     /\ SrcIntervals = << <<Cs(0), Cs(30)>>, <<Cs(50), Cs(80)>>,
                          <<Cs(90), Cs(120)>>, <<Cs(140), Cs(170)>> >>
     /\ Indices = <<0, 1, 2, 3>>
     /\ NoRampAtIndex(2)

\* the scenario has run to its end on draws of 0.3 s, the last of them
\* spent on the beat at 2.0 s
ScenarioRun ==
  /\ pc = "done"
  /\ AllDraws(Cs(30))
  /\ Len(draws) = 5
  /\ beat_idx = Len(beats)

\* C4: every accepted segment's source interval is at least 0.12 s long
\* and ends no later than the total available duration.
MinimumLength ==
  \A i \in 1..Len(Segs) :
     /\ Segs[i].src_end - Segs[i].src_start >= Cs(MinSegCs)
     /\ Segs[i].src_end <= Min(video_duration, music_duration)

\* a segment was accepted and then a beat less than 0.12 s before the end
\* of the material was turned down
ShortCandidateRejected ==
  /\ Len(Segs) >= 1
  /\ Len(draws) > Len(Segs)
  /\ beat_idx \in 1..Len(beats)
  /\ beats[beat_idx] < total_dur
  /\ total_dur - beats[beat_idx] < Cs(MinSegCs)

\* C5: the k-th accepted segment (k from 0) has a punch-in iff
\* k mod zoom_every_n = 0, a shake iff shake is enabled and k is odd, and
\* always the colour grade.
EffectPeriodicity ==
  \A i \in 1..Len(Segs) :
     /\ Segs[i].punch <=> ((i - 1) % zoom_every_n = 0)
     /\ Segs[i].shake <=> (shake /\ (i - 1) % 2 = 1)
     /\ Segs[i].grade

\* three segments, the third velocity-ramped, a flash scheduled, shake on
\* and a punch-in period of 2
EffectsVaried ==
  /\ Len(Segs) = 3
  /\ zoom_every_n = 2
  /\ shake
  /\ Segs[3].ramp
  /\ Len(Flashes) >= 1

\* C6: a flash overlay follows exactly the accepted segments whose index k
\* has (k+1) mod flash_every_n = 0, one per such segment, and starts where
\* its segment starts.
FlashSchedule ==
  \A i \in 1..Len(timeline) :
     /\ IsFlash(timeline[i]) =>
          /\ i > 1
          /\ IsSeg(timeline[i - 1])
          /\ timeline[i].start = timeline[i - 1].start
          /\ (SegsBefore(i - 1) + 1) % flash_every_n = 0
     /\ (IsSeg(timeline[i]) /\ (SegsBefore(i) + 1) % flash_every_n = 0) =>
          /\ i < Len(timeline)
          /\ IsFlash(timeline[i + 1])

\* period 2 over three segments: only the second one carries a flash
FlashOnSecondOnly ==
  /\ flash_every_n = 2
  /\ Len(Segs) = 3
  /\ Len(Flashes) = 1

IndexInv ==
  /\ seg_idx = Len(Segs)
  /\ \A i \in 1..Len(Segs) : Segs[i].idx = i - 1

\* C7: segment indices are 0, 1, 2, ... in acceptance order and seg_idx is
\* the number of segments accepted so far; a stale or too-short candidate
\* leaves timeline and index alone, an accepted one adds one segment and
\* one to the index.
MonotonicAcceptance ==
  /\ []IndexInv
  /\ [][/\ (RejectedStale \/ RejectedShort) =>
             (timeline' = timeline /\ seg_idx' = seg_idx)
        /\ AcceptedStep =>
             /\ seg_idx' = seg_idx + 1
             /\ Len(Segs') = Len(Segs) + 1
             /\ Last(Segs').idx = seg_idx]_vars

\* two segments accepted and one candidate rejected
RejectionAmongAcceptances ==
  /\ seg_idx = 2
  /\ iters = 3

\* C8: the duration given to the stitched edit is at most the video's and
\* at most the music's duration.
DurationBound ==
  pc = "done" =>
     /\ comp_duration <= video_duration
     /\ comp_duration <= music_duration

\* a velocity ramp has carried the time cursor past the available duration
RampOverrun == pc = "done" /\ t > total_dur /\ video_duration # music_duration

\* C9: the loop ends; each iteration moves the beat cursor on by at least
\* one, and there are never more iterations than beats.
Termination ==
  /\ [](iters <= Len(beats))
  /\ [][Iteration => beat_idx' >= beat_idx + 1]_vars
  /\ <>(pc = "done")

\* the loop has ended after as many iterations as there are beats, of all
\* three kinds
LoopRanOut ==
  /\ pc = "done"
  /\ Len(beats) >= 3
  /\ iters = Len(beats)
  /\ seg_idx >= 1
  /\ Len(draws) > seg_idx
  /\ iters > Len(draws)

\* C10 (as claimed): a rejected step leaves t alone and moves the beat
\* cursor by exactly one; an accepted step makes t strictly greater; t
\* never decreases.
TimeCursorMonotonic ==
  [][/\ (RejectedStale \/ RejectedShort) =>
          (t' = t /\ beat_idx' = beat_idx + 1)
     /\ AcceptedStep => t' > t
     /\ t' >= t]_vars

=============================================================================
